---- MODULE Spec2Model ----
(***************************************************************************)
(* The OTP workflow of api/index.py: request_otp and validate_otp, the     *)
(* otps table they share, and the clock the expiry test reads.  Each       *)
(* request handler is a process whose position is the next statement that  *)
(* talks to the database; handlers of different requests interleave at     *)
(* those statements.                                                       *)
(***************************************************************************)
EXTENDS Integers, Sequences, FiniteSets, TLC

VARIABLES
    now,            \* datetime.now(), in minutes
    otps,           \* rows of table otps: (key, otp, created_at)
    mailConfigured, \* GMAIL_EMAIL and GMAIL_APP_PASSWORD are both set
    pc,             \* per handler: the statement it is at
    op,             \* per handler: the route it serves
    data,           \* per handler: request.get_json()
    result,         \* per handler: validate_otp's fetched row
    otp,            \* per handler: request_otp's generated code
    success,        \* per handler: what send_otp_email returned
    conn,           \* per handler: the psycopg2 connection
    resp,           \* per handler: (status, message) returned
    uses,           \* history: per key, 200 answers of validate_otp since the last upsert
    lastCommit,     \* history: per key, the code of the last committed upsert
    old             \* history: per handler, the code request_otp's upsert overwrote

vars == <<now, otps, mailConfigured, pc, op, data, result, otp, success, conn, resp,
          uses, lastCommit, old>>

----------------------------------------------------------------------------
(* Bounds of the model *)

NumProcs == 2
MaxTime == 6

(* Program constants *)

OtpLow == 1000
OtpHigh == 9999
OtpLifetime == 5

Procs == 1..NumProcs

----------------------------------------------------------------------------
(* JSON values of a request body: null (also a missing field, data.get     *)
(* gives None), an integer, a string.                                      *)

JNull == [t |-> "null", n |-> 0, s |-> ""]
JInt(i) == [t |-> "int", n |-> i, s |-> ""]
JStr(x) == [t |-> "str", n |-> 0, s |-> x]

(* The integers whose decimal form the model can parse back. *)
Literals == 0..2

(* int(v): TypeError on None, the integer itself, or the parsed decimal    *)
(* string (ValueError when it is not a number).                            *)
PyInt(v) ==
    CASE v.t = "int" -> [ok |-> TRUE, n |-> v.n]
      [] v.t = "str" ->
            IF \E i \in Literals : ToString(i) = v.s
            THEN [ok |-> TRUE, n |-> CHOOSE i \in Literals : ToString(i) = v.s]
            ELSE [ok |-> FALSE, n |-> 0]
      [] OTHER -> [ok |-> FALSE, n |-> 0]

(* Python truthiness of a JSON value: None, 0 and "" are falsy. *)
Truthy(v) ==
    CASE v.t = "int" -> v.n /= 0
      [] v.t = "str" -> v.s /= ""
      [] OTHER -> FALSE

(* stored_otp == entered_otp: a str equals only an equal str. *)
PyStrEqTypeOnly(stored, entered) == entered.t = "str"
PyStrEq(stored, entered) == entered.t = "str" /\ entered.s = stored

(* f"{orgid}-{empid}" *)
OtpKey(orgid, empid) == ToString(orgid) \o "-" \o ToString(empid)

(* str(random.randint(1000, 9999)): the ends of the range stand for it. *)
Codes == {ToString(OtpLow), ToString(OtpHigh)}
NoCode == ""

----------------------------------------------------------------------------
(* Table employees, as the lookup of request_otp sees it. *)

Employees ==
    { [orgid |-> 1, empid |-> 1, empemail |-> "a@x.com"],
      [orgid |-> 1, empid |-> 2, empemail |-> "b@x.com"],
      [orgid |-> 2, empid |-> 1, empemail |-> ""] }

NoEmployee == [orgid |-> 0, empid |-> 0, empemail |-> ""]

(* SELECT empemail FROM employees WHERE orgid = %s AND empid = %s; fetchone *)
SelectEmployee(orgid, empid) ==
    IF \E e \in Employees : e.orgid = orgid /\ e.empid = empid
    THEN CHOOSE e \in Employees : e.orgid = orgid /\ e.empid = empid
    ELSE NoEmployee

Keys == { OtpKey(o, e) : o \in 1..2, e \in 1..2 }

----------------------------------------------------------------------------
(* Table otps *)

NoRow == [key |-> "", otp |-> "", created_at |-> -1]

(* SELECT otp, created_at FROM otps WHERE key = %s; fetchone *)
SelectOtp(rows, k) ==
    IF \E r \in rows : r.key = k
    THEN CHOOSE r \in rows : r.key = k
    ELSE NoRow

(* INSERT ... ON CONFLICT (key) DO UPDATE SET otp = %s, created_at = %s *)
UpsertInsertOnly(rows, k, c, t) ==
    rows \cup {[key |-> k, otp |-> c, created_at |-> t]}
UpsertDoNothing(rows, k, c, t) ==
    IF \E r \in rows : r.key = k
    THEN rows
    ELSE rows \cup {[key |-> k, otp |-> c, created_at |-> t]}
Upsert(rows, k, c, t) ==
    IF \E r \in rows : r.key = k
    THEN { IF r.key = k THEN [r EXCEPT !.otp = c, !.created_at = t] ELSE r : r \in rows }
    ELSE rows \cup {[key |-> k, otp |-> c, created_at |-> t]}

(* DELETE FROM otps WHERE key = %s *)
DeleteOtpKept(rows, k) == rows
DeleteOtp(rows, k) == { r \in rows : r.key /= k }

(* datetime.now() - created_at > timedelta(minutes=5) *)
ExpiredAtLifetime(t, created_at) == t - created_at >= OtpLifetime
Expired(t, created_at) == t - created_at > OtpLifetime

----------------------------------------------------------------------------
(* Responses: jsonify(...), status *)

Resp(status, msg) == [status |-> status, msg |-> msg]
NoResp == Resp(0, "")

ReqRequired == Resp(400, "orgid and empid are required")
ReqNoEmployee == Resp(404, "No employee found with this orgid and empid")
ReqNoEmail == Resp(400, "Employee email not found")
ReqSendFailed == Resp(200, "Failed to send OTP via email. Check the server console for the OTP.")
ReqNotConfigured == Resp(200, "Email service not configured. Check the server console for the OTP.")
ReqSent == Resp(200, "OTP sent to your registered email address")
ValRequired == Resp(400, "orgid, empid, and OTP are required")
ValNotFound == Resp(400, "OTP not found or expired")
ValExpired == Resp(400, "OTP expired")
ValInvalid == Resp(400, "Invalid OTP")
ValOk == Resp(200, "OTP validated successfully")
Unexpected == Resp(500, "Unexpected error")

(* finally: if conn: conn.close() *)
FinallyLeaks(c) == c
Finally(c) == IF c = "open" THEN "closed" ELSE c

(* The parsed fields of a handler's body. *)
Orgid(p) == PyInt(data[p].orgId).n
Empid(p) == PyInt(data[p].empId).n
KeyOf(p) == OtpKey(Orgid(p), Empid(p))

(* The top of both handlers: int(data.get(..)) twice, then the required-   *)
(* fields test.  "raise": int() raised; "reject": the 400 return; "ok".    *)
Parse(o, d) ==
    IF ~PyInt(d.orgId).ok \/ ~PyInt(d.empId).ok THEN "raise"
    ELSE IF  \/ PyInt(d.orgId).n = 0 \/ PyInt(d.empId).n = 0
             \/ (o = "validate" /\ ~Truthy(d.otp))
         THEN "reject" ELSE "ok"

Required(o) == IF o = "request" THEN ReqRequired ELSE ValRequired

----------------------------------------------------------------------------
(* Request bodies *)

IdInputs == {JNull, JStr("x"), JInt(0), JInt(1), JStr("2")}
OtpInputs == {JNull, JStr(""), JInt(OtpLow)} \cup {JStr(c) : c \in Codes}

(* The ids the handlers accept, and one code to go with the others. *)
GoodIds == { i \in IdInputs : PyInt(i).ok /\ PyInt(i).n /= 0 }

Body(o, e, c) == [orgId |-> o, empId |-> e, otp |-> c]
NoBody == Body(JNull, JNull, JNull)

Bodies(o) ==
    IF o = "request"
    THEN { Body(i, e, JNull) : i \in IdInputs, e \in IdInputs }
    ELSE { Body(i, e, c) : i \in GoodIds, e \in GoodIds, c \in OtpInputs }
         \cup { Body(i, e, JStr(ToString(OtpLow))) : i \in IdInputs, e \in IdInputs }

(* The bodies of the concurrent runs: one key, every code, one bad body. *)
RaceBodies(o) ==
    IF o = "request"
    THEN { Body(JInt(1), JInt(1), JNull), Body(JNull, JInt(1), JNull) }
    ELSE { Body(JInt(1), JInt(1), JStr(c)) : c \in Codes }

----------------------------------------------------------------------------
Init ==
    /\ now = 0
    /\ otps = {}
    /\ mailConfigured \in BOOLEAN
    /\ pc = [p \in Procs |-> "idle"]
    /\ op = [p \in Procs |-> "none"]
    /\ data = [p \in Procs |-> NoBody]
    /\ result = [p \in Procs |-> NoRow]
    /\ otp = [p \in Procs |-> NoCode]
    /\ success = [p \in Procs |-> FALSE]
    /\ conn = [p \in Procs |-> "none"]
    /\ resp = [p \in Procs |-> NoResp]
    /\ uses = [k \in Keys |-> 0]
    /\ lastCommit = [k \in Keys |-> NoCode]
    /\ old = [p \in Procs |-> NoCode]

(* return r, through the finally block *)
Return(p, r) ==
    /\ pc' = [pc EXCEPT ![p] = "done"]
    /\ resp' = [resp EXCEPT ![p] = r]
    /\ conn' = [conn EXCEPT ![p] = Finally(conn[p])]

Goto(p, l) ==
    /\ pc' = [pc EXCEPT ![p] = l]
    /\ UNCHANGED resp

(* A request arrives: the body is parsed and checked, the connection opened. *)
Begin(p, o, d) ==
    /\ pc[p] = "idle"
    /\ op' = [op EXCEPT ![p] = o]
    /\ data' = [data EXCEPT ![p] = d]
    /\ UNCHANGED <<now, otps, mailConfigured, result, otp, success, old, uses, lastCommit>>
    /\ CASE Parse(o, d) = "raise" ->
                /\ pc' = [pc EXCEPT ![p] = "done"]
                /\ resp' = [resp EXCEPT ![p] = Unexpected]
                /\ conn' = [conn EXCEPT ![p] = Finally("none")]
         [] Parse(o, d) = "reject" ->
                /\ pc' = [pc EXCEPT ![p] = "done"]
                /\ resp' = [resp EXCEPT ![p] = Required(o)]
                /\ conn' = [conn EXCEPT ![p] = Finally("none")]
         [] OTHER ->
                /\ pc' = [pc EXCEPT ![p] = IF o = "request" THEN "lookup" ELSE "fetch"]
                /\ resp' = [resp EXCEPT ![p] = NoResp]
                /\ conn' = [conn EXCEPT ![p] = "open"]

(* get_db_connection() raises: conn is still None in the finally block. *)
ConnectFails(p, o, d) ==
    /\ pc[p] = "idle"
    /\ Parse(o, d) = "ok"
    /\ op' = [op EXCEPT ![p] = o]
    /\ data' = [data EXCEPT ![p] = d]
    /\ pc' = [pc EXCEPT ![p] = "done"]
    /\ resp' = [resp EXCEPT ![p] = Unexpected]
    /\ conn' = [conn EXCEPT ![p] = Finally("none")]
    /\ UNCHANGED <<now, otps, mailConfigured, result, otp, success, old, uses, lastCommit>>

(* request_otp: the employee lookup and its two early returns. *)
LookupOutcomeNoCheck(e) == "found"
LookupOutcome(e) ==
    IF e = NoEmployee THEN "none"
    ELSE IF e.empemail = "" THEN "noemail" ELSE "found"

Lookup(p) ==
    /\ pc[p] = "lookup"
    /\ LET out == LookupOutcome(SelectEmployee(Orgid(p), Empid(p))) IN
       CASE out = "none" -> Return(p, ReqNoEmployee)
         [] out = "noemail" -> Return(p, ReqNoEmail)
         [] OTHER -> Goto(p, "upsert") /\ UNCHANGED conn
    /\ UNCHANGED <<now, otps, mailConfigured, op, data, result, otp, success, old,
                   uses, lastCommit>>

(* request_otp: draw the code, upsert the row, commit. *)
StoreOtp(p) ==
    /\ pc[p] = "upsert"
    /\ \E c \in Codes :
        /\ otp' = [otp EXCEPT ![p] = c]
        /\ otps' = Upsert(otps, KeyOf(p), c, now)
        /\ lastCommit' = [lastCommit EXCEPT ![KeyOf(p)] = c]
        /\ old' = [old EXCEPT ![p] = SelectOtp(otps, KeyOf(p)).otp]
    /\ uses' = [uses EXCEPT ![KeyOf(p)] = 0]
    /\ Goto(p, "deliver")
    /\ UNCHANGED <<now, mailConfigured, op, data, result, success, conn>>

(* request_otp: send_otp_email, which returns False on any exception. *)
DeliverOutcomeFailsHard(configured, sent) ==
    IF configured /\ sent THEN ReqSent ELSE Unexpected
DeliverOutcome(configured, sent) ==
    IF configured
    THEN IF ~sent THEN ReqSendFailed ELSE ReqSent
    ELSE ReqNotConfigured

Deliver(p) ==
    /\ pc[p] = "deliver"
    /\ \E sent \in (IF mailConfigured THEN BOOLEAN ELSE {FALSE}) :
        /\ success' = [success EXCEPT ![p] = sent]
        /\ Return(p, DeliverOutcome(mailConfigured, sent))
    /\ UNCHANGED <<now, otps, mailConfigured, op, data, result, otp, old, uses, lastCommit>>

(* validate_otp: fetch the row; not found, expired, or compare. *)
FetchOutcome(row, entered, t) ==
    IF row = NoRow THEN "notfound"
    ELSE IF Expired(t, row.created_at) THEN "expired"
    ELSE IF ~PyStrEq(row.otp, entered) THEN "invalid"
    ELSE "match"

Fetch(p) ==
    /\ pc[p] = "fetch"
    /\ LET row == SelectOtp(otps, KeyOf(p))
           out == FetchOutcome(row, data[p].otp, now) IN
       /\ result' = [result EXCEPT ![p] = row]
       /\ CASE out = "notfound" -> Return(p, ValNotFound)
            [] out = "invalid" -> Return(p, ValInvalid)
            [] out = "expired" -> Goto(p, "delete_expired") /\ UNCHANGED conn
            [] OTHER -> Goto(p, "delete_ok") /\ UNCHANGED conn
    /\ UNCHANGED <<now, otps, mailConfigured, op, data, otp, success, old, uses, lastCommit>>

(* validate_otp: delete the expired row, commit, answer "OTP expired". *)
DeleteExpired(p) ==
    /\ pc[p] = "delete_expired"
    /\ otps' = DeleteOtp(otps, KeyOf(p))
    /\ Return(p, ValExpired)
    /\ UNCHANGED <<now, mailConfigured, op, data, result, otp, success, old, uses, lastCommit>>

(* validate_otp: delete the validated row, commit, answer 200. *)
DeleteValidated(p) ==
    /\ pc[p] = "delete_ok"
    /\ otps' = DeleteOtp(otps, KeyOf(p))
    /\ uses' = [uses EXCEPT ![KeyOf(p)] = IF @ < NumProcs THEN @ + 1 ELSE @]
    /\ Return(p, ValOk)
    /\ UNCHANGED <<now, mailConfigured, op, data, result, otp, success, old, lastCommit>>

(* A statement on the open connection raises (the store or the network     *)
(* fails, or the store aborts the transaction): nothing of the statement   *)
(* is committed, except Exception answers 500, finally closes.             *)
StoreSteps == {"lookup", "upsert", "fetch", "delete_expired", "delete_ok"}

Raise(p) ==
    /\ pc[p] \in StoreSteps
    /\ Return(p, Unexpected)
    /\ UNCHANGED <<now, otps, mailConfigured, op, data, result, otp, success, old,
                   uses, lastCommit>>

(* The response has left; the worker is free for the next request. *)
Respond(p) ==
    /\ pc[p] = "done"
    /\ pc' = [pc EXCEPT ![p] = "idle"]
    /\ op' = [op EXCEPT ![p] = "none"]
    /\ data' = [data EXCEPT ![p] = NoBody]
    /\ resp' = [resp EXCEPT ![p] = NoResp]
    /\ conn' = [conn EXCEPT ![p] = "none"]
    /\ result' = [result EXCEPT ![p] = NoRow]
    /\ otp' = [otp EXCEPT ![p] = NoCode]
    /\ success' = [success EXCEPT ![p] = FALSE]
    /\ old' = [old EXCEPT ![p] = NoCode]
    /\ UNCHANGED <<now, otps, mailConfigured, uses, lastCommit>>

(* Time passes. *)
Tick ==
    /\ now < MaxTime
    /\ now' = now + 1
    /\ UNCHANGED <<otps, mailConfigured, pc, op, data, result, otp, success, conn, resp,
                   uses, lastCommit, old>>

Ops == {"request", "validate"}

Step(p) ==
    \/ Lookup(p)
    \/ StoreOtp(p)
    \/ Deliver(p)
    \/ Fetch(p)
    \/ DeleteExpired(p)
    \/ DeleteValidated(p)
    \/ Raise(p)
    \/ Respond(p)

(* Handlers of concurrent requests, interleaved at their statements. *)
Next ==
    \/ Tick
    \/ \E p \in Procs : \E o \in Ops : \E d \in RaceBodies(o) : Begin(p, o, d)
    \/ \E p \in Procs : \E o \in Ops : \E d \in RaceBodies(o) : ConnectFails(p, o, d)
    \/ \E p \in Procs : Step(p)

Spec == Init /\ [][Next]_vars

(* One request at a time, each served to its return, over every body. *)
SeqNext ==
    \/ Tick
    \/ \E o \in Ops : \E d \in Bodies(o) : Begin(1, o, d)
    \/ \E o \in Ops : \E d \in Bodies(o) : ConnectFails(1, o, d)
    \/ Step(1)

SeqSpec == Init /\ [][SeqNext]_vars

----------------------------------------------------------------------------
(* What the properties below read *)

Row(k) == SelectOtp(otps, k)
Moved(p) == pc'[p] /= pc[p]
Raised(p) == resp'[p] = Unexpected
Age(row) == now - row.created_at

(* The state part and the step part of C1. *)
C1_Inv ==
    /\ \A k \in Keys : uses[k] <= 1
    /\ \A p \in Procs :
        (pc[p] = "done" /\ resp[p] = ValOk) =>
            /\ Row(KeyOf(p)) = NoRow
            /\ uses[KeyOf(p)] = 1
            /\ data[p].otp = JStr(lastCommit[KeyOf(p)])

C1_Act ==
    \A p \in Procs :
        /\ (pc[p] = "upsert" /\ pc'[p] = "deliver") =>
                FetchOutcome(SelectOtp(otps', KeyOf(p)), JStr(otp'[p]), now') = "match"
        /\ (pc[p] = "fetch" /\ Moved(p) /\ ~Raised(p)) =>
                LET row == Row(KeyOf(p)) IN
                /\ (row /= NoRow /\ Age(row) <= OtpLifetime /\ data[p].otp = JStr(row.otp))
                        => pc'[p] = "delete_ok"
                /\ row = NoRow => (pc'[p] = "done" /\ resp'[p] = ValNotFound)
        /\ (pc[p] = "delete_ok" /\ Moved(p) /\ ~Raised(p)) =>
                /\ resp'[p] = ValOk
                /\ SelectOtp(otps', KeyOf(p)) = NoRow

(* C1: request_otp followed by validate_otp with the stored code, within   *)
(* the lifetime, answers 200 and deletes the row; the next validate_otp    *)
(* finds no row and answers "OTP not found or expired"; served one at a    *)
(* time, an issued code is answered 200 at most once.                      *)
C1_SuccessExactlyOnce == [](C1_Inv) /\ [][C1_Act]_vars

C1_Witness ==
    /\ pc[1] = "done"
    /\ op[1] = "validate"
    /\ resp[1] = ValNotFound
    /\ uses[KeyOf(1)] = 1
    /\ data[1].otp = JStr(lastCommit[KeyOf(1)])

(* C2, as stated: whenever request_otp overwrites a row that was not yet   *)
(* consumed, validate_otp with the overwritten code fails and with the new *)
(* code succeeds, for every pair of codes.                                 *)
C2_OldFailsNewSucceeds ==
    [][\A p \in Procs :
        (pc[p] = "upsert" /\ pc'[p] = "deliver" /\ old'[p] /= NoCode) =>
            /\ FetchOutcome(SelectOtp(otps', KeyOf(p)), JStr(old'[p]), now') /= "match"
            /\ FetchOutcome(SelectOtp(otps', KeyOf(p)), JStr(otp'[p]), now') = "match"]_vars

(* C2, amended: the same when the new code differs from the overwritten    *)
(* one; the two draws are independent and may be equal.                    *)
C2_OldFailsWhenCodesDiffer ==
    [][\A p \in Procs :
        (pc[p] = "upsert" /\ pc'[p] = "deliver" /\ old'[p] /= NoCode /\ old'[p] /= otp'[p]) =>
            /\ FetchOutcome(SelectOtp(otps', KeyOf(p)), JStr(old'[p]), now') = "invalid"
            /\ FetchOutcome(SelectOtp(otps', KeyOf(p)), JStr(otp'[p]), now') = "match"]_vars

C2_Witness ==
    /\ pc[1] = "deliver"
    /\ old[1] /= NoCode
    /\ old[1] /= otp[1]
    /\ Row(KeyOf(1)).otp = otp[1]

(* The state part and the step part of C3. *)
C3_Inv ==
    \A p \in Procs :
        (pc[p] = "done" /\ resp[p] = ValInvalid) =>
            LET row == Row(KeyOf(p)) IN
            /\ row /= NoRow
            /\ row = result[p]
            /\ Age(row) <= OtpLifetime => FetchOutcome(row, JStr(row.otp), now) = "match"

C3_Act ==
    \A p \in Procs :
        (pc[p] = "fetch" /\ Moved(p)) =>
            LET row == Row(KeyOf(p)) IN
            (row /= NoRow /\ Age(row) <= OtpLifetime /\ data[p].otp /= JStr(row.otp)) =>
                /\ otps' = otps
                /\ pc'[p] = "done"
                /\ ~Raised(p) => resp'[p] = ValInvalid

(* C3: on a live, unexpired row, validate_otp with another code answers    *)
(* "Invalid OTP" and leaves table otps as it was, the row with its code    *)
(* and created_at, however often; the stored code still matches while the  *)
(* row is within its lifetime.                                             *)
C3_WrongCodeKeepsRecord == [](C3_Inv) /\ [][C3_Act]_vars

C3_Witness ==
    /\ pc[1] = "done"
    /\ resp[1] = ValInvalid
    /\ data[1].otp \in {JStr(c) : c \in Codes}
    /\ Row(KeyOf(1)) = result[1]
    /\ Row(KeyOf(1)).otp /= data[1].otp.s

(* The state part and the step part of C4. *)
C4_Inv ==
    \A p \in Procs :
        (pc[p] = "done" /\ resp[p] = ValExpired) =>
            /\ Row(KeyOf(p)) = NoRow
            /\ FetchOutcome(Row(KeyOf(p)), data[p].otp, now) = "notfound"

C4_Act ==
    \A p \in Procs :
        /\ (pc[p] = "fetch" /\ Moved(p)) =>
                LET row == Row(KeyOf(p)) IN
                /\ (row /= NoRow /\ Age(row) > OtpLifetime /\ ~Raised(p))
                        => pc'[p] = "delete_expired"
                /\ (row /= NoRow /\ Age(row) <= OtpLifetime)
                        => (pc'[p] /= "delete_expired" /\ resp'[p] /= ValExpired)
        /\ (pc[p] = "delete_expired" /\ Moved(p)) =>
                /\ pc'[p] = "done"
                /\ resp'[p] /= ValOk
                /\ ~Raised(p) => (resp'[p] = ValExpired /\ SelectOtp(otps', KeyOf(p)) = NoRow)

(* C4: validate_otp on a row older than 5 minutes answers "OTP expired",   *)
(* never 200, whatever the code, and deletes the row, so that the next     *)
(* validate_otp finds none; at 5 minutes or less it does not answer        *)
(* "OTP expired".                                                          *)
C4_ExpiredIsConsumed == [](C4_Inv) /\ [][C4_Act]_vars

C4_Witness ==
    /\ pc[1] = "done"
    /\ resp[1] = ValExpired
    /\ data[1].otp = JStr(result[1].otp)
    /\ Row(KeyOf(1)) = NoRow

C6_Inv ==
    /\ \A r1 \in otps : \A r2 \in otps : r1.key = r2.key => r1 = r2
    /\ \A r \in otps : r.key \in Keys /\ r.otp = lastCommit[r.key]

C6_Act ==
    \A p \in Procs :
        (pc[p] = "fetch" /\ pc'[p] = "delete_ok") =>
            data[p].otp = JStr(lastCommit[KeyOf(p)])

(* C6: table otps never holds two rows of one key; the row of a key holds  *)
(* the code of the upsert that committed last, and validate_otp goes on to *)
(* its 200 only with that code.                                            *)
C6_LastWriteWins == [](C6_Inv) /\ [][C6_Act]_vars

C6_Witness ==
    \E p \in Procs : \E q \in Procs \ {p} :
        /\ pc[p] = "deliver" /\ pc[q] = "deliver"
        /\ KeyOf(p) = KeyOf(q)
        /\ otp[p] /= otp[q]
        /\ old[p] = otp[q]
        /\ Row(KeyOf(p)).otp = otp[p]

(* The state part and the step part of C7. *)
C7_Inv ==
    \A r \in otps :
        \E e \in Employees : e.empemail /= "" /\ OtpKey(e.orgid, e.empid) = r.key

C7_Act ==
    \A p \in Procs :
        (pc[p] = "lookup" /\ Moved(p)) =>
            LET e == SelectEmployee(Orgid(p), Empid(p)) IN
            /\ e = NoEmployee =>
                    /\ otps' = otps
                    /\ pc'[p] = "done"
                    /\ ~Raised(p) => resp'[p] = ReqNoEmployee
            /\ (e /= NoEmployee /\ e.empemail = "") =>
                    /\ otps' = otps
                    /\ pc'[p] = "done"
                    /\ ~Raised(p) => resp'[p] = ReqNoEmail

(* C7: request_otp for a pair with no employee answers 404, and for an     *)
(* employee without email 400, and writes nothing to table otps; no row is *)
(* ever stored for such a pair.                                            *)
C7_FailedLookupWritesNothing == [](C7_Inv) /\ [][C7_Act]_vars

C7_Witness ==
    /\ pc[1] = "done"
    /\ op[1] = "request"
    /\ resp[1] = ReqNoEmployee
    /\ otps /= {}

(* C8: past the lookup, the row is upserted and committed before the email *)
(* is attempted; when the sender is not configured or the send fails,      *)
(* request_otp still answers 200, with a message other than "OTP sent",    *)
(* the row stays, and its code matches while the row is within its         *)
(* lifetime.                                                               *)
C8_DeliveryFailureKeepsCode ==
    \A p \in Procs :
        /\ pc[p] = "deliver" =>
                /\ Row(KeyOf(p)).otp = otp[p]
                /\ resp[p] = NoResp
        /\ (pc[p] = "done" /\ op[p] = "request" /\ otp[p] /= NoCode) =>
                LET row == Row(KeyOf(p)) IN
                /\ resp[p].status = 200
                /\ resp[p] = ReqSent <=> (mailConfigured /\ success[p])
                /\ ~mailConfigured => resp[p] = ReqNotConfigured
                /\ (mailConfigured /\ ~success[p]) => resp[p] = ReqSendFailed
                /\ row.otp = otp[p]
                /\ Age(row) <= OtpLifetime => FetchOutcome(row, JStr(otp[p]), now) = "match"

C8_Witness ==
    /\ pc[1] = "done"
    /\ op[1] = "request"
    /\ mailConfigured
    /\ ~success[1]
    /\ resp[1] = ReqSendFailed
    /\ Row(KeyOf(1)).otp = otp[1]

(* C9, as stated: a request_otp body that lacks orgId or empId or gives a  *)
(* value that is no integer, and a validate_otp body that lacks orgId,     *)
(* empId or otp, is answered 400, with no connection opened.               *)
Lacks(v) == v = JNull
NotInteger(v) == v.t = "str" /\ ~PyInt(v).ok

Malformed(o, d) ==
    IF o = "request"
    THEN Lacks(d.orgId) \/ Lacks(d.empId) \/ NotInteger(d.orgId) \/ NotInteger(d.empId)
    ELSE Lacks(d.orgId) \/ Lacks(d.empId) \/ Lacks(d.otp)

C9_MalformedIs400 ==
    \A p \in Procs :
        (pc[p] = "done" /\ Malformed(op[p], data[p])) =>
            (resp[p].status = 400 /\ conn[p] = "none")

(* C10: a handler that opened a connection has closed it when it returns,  *)
(* on every path: 200, each 400 and 404, and an exception at any           *)
(* statement after the connection was opened.                              *)
C10_ConnectionReleased ==
    \A p \in Procs :
        /\ pc[p] \in {"idle", "done"} => conn[p] /= "open"
        /\ pc[p] \in StoreSteps \cup {"deliver"} => conn[p] = "open"
        /\ (pc[p] = "done" /\ resp[p].status \in {200, 404}) => conn[p] = "closed"

C10_Witness ==
    \E p \in Procs :
        /\ pc[p] = "done"
        /\ resp[p] = Unexpected
        /\ result[p] /= NoRow
        /\ conn[p] = "closed"

====
